---- MODULE Spec2Model ----
(***************************************************************************)
(* Job orchestration pipeline of smart-downloader.                         *)
(*                                                                         *)
(* The Job Store is the `downloads` table of database/manager.py.  The     *)
(* runner is DownloadPooler of src/pooler/download_pooler.py with the      *)
(* fetch monitor of src/download/direct_downloader.py, RetryHandler of     *)
(* src/pooler/retry_handler.py and UploadHandler of                        *)
(* src/pooler/upload_handler.py.  User control is the set of callback      *)
(* handlers of src/handlers.  The bot-side QueueManager of                 *)
(* src/queue_manager.py is a second runner, specified by SpecQM.           *)
(*                                                                         *)
(* Each action is one stretch of code between two suspension points of     *)
(* the asyncio event loop (or one handler of the bot process).  The bot    *)
(* and the pooler are separate processes sharing the SQLite file, so user  *)
(* actions interleave with the pooler's steps.                             *)
(***************************************************************************)
EXTENDS Integers, Sequences, FiniteSets, TLC

\* ---------------------------------------------------------------- bounds
\* Number of rows ever inserted into `downloads` (ids are AUTOINCREMENT).
MaxJobs == 2

\* Number of rows of the scheduling-order specification SpecOrder.
OrderJobs == 3

\* Number of user-control requests (pause, cancel, reprioritise, delete)
\* issued in one behaviour; a resume only takes a pause back and is not
\* counted.
MaxUserOps == 1

\* ------------------------------------------------------------- constants
MAX_RETRIES_off == 3 + 1

\* RetryHandler.MAX_RETRIES
MAX_RETRIES == 3

\* RetryHandler.BASE_DELAY (seconds)
BASE_DELAY == 60

\* Python None for a job id (current_download_id, fetchone() of no row)
NoJob == 0

\* config.MAX_FILE_SIZE (2 * 1024 ** 3 bytes), in GiB
MAX_FILE_SIZE == 2

\* sizes of remote files, in GiB
SizeSet == {1, 2, 3}

\* refreshes of updated_at followed per row
MaxStamps == 2

\* iterations of the monitor loop that find the transfer still active
MaxTicks == 2

\* timeout of the wait in DownloadPooler._shutdown (seconds)
SHUTDOWN_TIMEOUT == 300

\* sleep of one iteration of _monitor_download (seconds)
MONITOR_INTERVAL == 2

\* UploadManager.MAX_RETRIES
UM_MAX_RETRIES == 3

\* Python None / SQL NULL for file_id
NoRef == "null"

\* priority given by the "download now" button
PRIORITY_NOW == 999

\* config.RETRY_DELAYS, used by QueueManager
RETRY_DELAYS == <<0, 120, 480>>

\* Priorities a caller of set_queue_priority passes in SpecOrder.
PrioritySet == {5, 10}

MaxId == IF MaxJobs > OrderJobs THEN MaxJobs ELSE OrderJobs

Ids == 1..MaxId

\* ----------------------------------------------------------------- state
VARIABLES
    rows,                 \* ids of the rows present in `downloads`
    nextId,               \* next AUTOINCREMENT id
    status,               \* downloads.status
    paused,               \* downloads.paused
    cancelled,            \* downloads.cancelled
    priority,             \* downloads.priority
    retry_count,          \* downloads.retry_count
    file_path,            \* downloads.file_path IS NOT NULL
    file_id,              \* downloads.file_id: NoRef or the channel that returned it
    alive,                \* the pooler process exists
    running,              \* DownloadPooler.running
    current_download_id,  \* DownloadPooler.current_download_id
    current_upload_id,    \* DownloadPooler.current_upload_id
    dl_pc,                \* position of the _process_download task
    dl_job,               \* its download['id']
    rh_retry_count,       \* local retry_count of handle_failure
    rh_delay,             \* local delay of handle_failure
    ul_pc,                \* position of the _process_upload task
    ul_job,               \* its download['id']
    ul_path,              \* its download.get('file_path') is not None
    qm_pc,                \* position of QueueManager._process_download
    qm_job,               \* its download['id']
    qm_retry_count,       \* its local retry_count
    errs,                 \* consecutive fetch attempts ended by an engine error
    ops,                  \* number of counted user-control requests so far
    firstClaims,          \* jobs in the order of their first claim
    resumed,              \* jobs whose last pause/resume request was a resume
    fsize,                \* size of the remote file of a job, in GiB
    ticks,                \* monitor iterations so far that found the engine active
    um_pc,                \* position of UploadManager.process_queue
    um_job,               \* its download['id']
    um_attempt,           \* its loop variable attempt
    progress,             \* downloads.progress (per cent)
    sig_dl,               \* current_download_id when the signal arrived
    sig_ul,               \* current_upload_id when the signal arrived
    sent,                 \* per cent sent so far by the upload in flight
    updated_at,           \* downloads.updated_at, as the number of refreshes
    url,                  \* the text of the last submitted message
    url_type,             \* what detect_url_type returned for it
    gid_status,           \* the status aria2c holds for the transfer
    missing               \* rows whose artifact file is no longer on disk

storeVars == <<rows, nextId, status, paused, cancelled, priority,
               retry_count, file_path, file_id>>

poolerVars == <<alive, running, current_download_id, current_upload_id,
                dl_pc, dl_job, rh_retry_count, rh_delay,
                ul_pc, ul_job, ul_path>>

qmVars == <<qm_pc, qm_job, qm_retry_count>>

umVars == <<um_pc, um_job, um_attempt>>

\* state no action of the pooler, of QueueManager or of user control changes
sigVars == <<sig_dl, sig_ul>>

\* what comes from outside: the submitted text and the fetch engine
envVars == <<url, url_type, gid_status, missing>>

auxVars == <<fsize, ticks, umVars, progress, sigVars, sent, updated_at, envVars>>

histVars == <<errs, ops, firstClaims, resumed, auxVars>>

vars == <<storeVars, poolerVars, qmVars, histVars>>

\* ------------------------------------------------------------- Job Store
\* 2^n, for the delay of handle_failure
RECURSIVE Pow2(_)
Pow2(n) == IF n = 0 THEN 1 ELSE 2 * Pow2(n - 1)

\* UPDATE downloads SET status = ? WHERE id = ?  (no row: nothing changes)
update_download_status(st, j, s) ==
    IF j \in rows THEN [st EXCEPT ![j] = s] ELSE st

increment_retry_off(rc, j) == [rc EXCEPT ![j] = @ + 2]

\* UPDATE downloads SET retry_count = retry_count + 1 WHERE id = ?
increment_retry(rc, j) == [rc EXCEPT ![j] = @ + 1]

\* ORDER BY of get_next_pending_download: stale downloading rows first,
\* then priority DESC, then added_date ASC (added_date grows with the id)
PendingBefore(a, b) ==
    LET ra == IF status[a] = "downloading" THEN 0 ELSE 1
        rb == IF status[b] = "downloading" THEN 0 ELSE 1
    IN  \/ ra < rb
        \/ ra = rb /\ priority[a] > priority[b]
        \/ ra = rb /\ priority[a] = priority[b] /\ a < b

\* WHERE status IN ('pending', 'downloading') AND paused = 0
PendingCandidates ==
    {j \in rows : status[j] \in {"pending", "downloading"} /\ ~paused[j]}

get_next_pending_download_fifo ==
    LET c == {j \in rows : status[j] \in {"pending", "downloading"} /\ ~paused[j]}
    IN  IF c = {} THEN NoJob
        ELSE CHOOSE j \in c : \A k \in c : j <= k

get_next_pending_download_nopause ==
    LET c == {j \in rows : status[j] \in {"pending", "downloading"}}
    IN  IF c = {} THEN NoJob
        ELSE CHOOSE j \in c : \A k \in c \ {j} : PendingBefore(j, k)

get_next_pending_download ==
    IF PendingCandidates = {} THEN NoJob
    ELSE CHOOSE j \in PendingCandidates :
             \A k \in PendingCandidates \ {j} : PendingBefore(j, k)

\* WHERE status = 'downloaded' AND file_id IS NULL ORDER BY added_date ASC
get_next_completed_upload ==
    LET c == {j \in rows : status[j] = "downloaded" /\ file_id[j] = NoRef}
    IN  IF c = {} THEN NoJob
        ELSE CHOOSE j \in c : \A k \in c : j <= k

\* WHERE status IN ('downloading', 'uploading') LIMIT 1
get_active_download ==
    LET c == {j \in rows : status[j] \in {"downloading", "uploading"}}
    IN  IF c = {} THEN NoJob ELSE CHOOSE j \in c : TRUE

\* WHERE status = 'pending' ORDER BY added_date ASC LIMIT 1
get_next_pending ==
    LET c == {j \in rows : status[j] = "pending"}
    IN  IF c = {} THEN NoJob
        ELSE CHOOSE j \in c : \A k \in c : j <= k

\* ------------------------------------------------------------------ Init
InitPooler ==
    /\ alive = TRUE
    /\ running = TRUE
    /\ current_download_id = NoJob
    /\ current_upload_id = NoJob
    /\ dl_pc = "none"
    /\ dl_job = NoJob
    /\ rh_retry_count = 0
    /\ rh_delay = 0
    /\ ul_pc = "none"
    /\ ul_job = NoJob
    /\ ul_path = FALSE

InitQM ==
    /\ qm_pc = "idle"
    /\ qm_job = NoJob
    /\ qm_retry_count = 0

\* no message was submitted yet
NoUrl == [scheme |-> "", host |-> "", path |-> "", suffix |-> ""]

InitHist ==
    /\ errs = [j \in Ids |-> 0]
    /\ ops = 0
    /\ firstClaims = <<>>
    /\ resumed = {}
    /\ fsize = [j \in Ids |-> 0]
    /\ ticks = 0
    /\ um_pc = "idle"
    /\ um_job = NoJob
    /\ um_attempt = 0
    /\ progress = [j \in Ids |-> 0]
    /\ sig_dl = NoJob
    /\ sig_ul = NoJob
    /\ sent = 0
    /\ updated_at = [j \in Ids |-> 0]
    /\ url = NoUrl
    /\ url_type = "none"
    /\ gid_status = "active"
    /\ missing = {}

\* an empty table; rows get the column defaults of _sql_downloads
InitStore ==
    /\ rows = {}
    /\ nextId = 1
    /\ status = [j \in Ids |-> "pending"]
    /\ paused = [j \in Ids |-> FALSE]
    /\ cancelled = [j \in Ids |-> FALSE]
    /\ priority = [j \in Ids |-> 0]
    /\ retry_count = [j \in Ids |-> 0]
    /\ file_path = [j \in Ids |-> FALSE]
    /\ file_id = [j \in Ids |-> NoRef]

Init == InitStore /\ InitPooler /\ InitQM /\ InitHist


\* ------------------------------------------------- pooler: the main loop
PollDownloadBody_norun ==
    /\ alive
    /\ dl_pc # "created" /\ ul_pc # "created"
    /\ current_download_id = NoJob
    /\ get_next_pending_download # NoJob
    /\ dl_pc' = "created"
    /\ dl_job' = get_next_pending_download
    /\ UNCHANGED <<storeVars, qmVars, errs, ops, resumed, auxVars>>
    /\ UNCHANGED <<alive, running, current_download_id, current_upload_id,
                   rh_retry_count, rh_delay, ul_pc, ul_job, ul_path>>

PollDownloadBody_serial ==
    /\ alive /\ running
    /\ dl_pc # "created" /\ ul_pc # "created"
    /\ current_download_id = NoJob
    /\ current_upload_id = NoJob
    /\ get_next_pending_download # NoJob
    /\ dl_pc' = "created"
    /\ dl_job' = get_next_pending_download
    /\ UNCHANGED <<storeVars, qmVars, errs, ops, resumed, auxVars>>
    /\ UNCHANGED <<alive, running, current_download_id, current_upload_id,
                   rh_retry_count, rh_delay, ul_pc, ul_job, ul_path>>

\* DownloadPooler.start, one iteration that finds a download: the slot is
\* free, get_next_pending_download returns a row, a task is created
PollDownloadBody ==
    /\ alive /\ running
    /\ dl_pc # "created" /\ ul_pc # "created"
    /\ current_download_id = NoJob
    /\ get_next_pending_download # NoJob
    /\ dl_pc' = "created"
    /\ dl_job' = get_next_pending_download
    /\ UNCHANGED <<storeVars, qmVars, errs, ops, resumed, auxVars>>
    /\ UNCHANGED <<alive, running, current_download_id, current_upload_id,
                   rh_retry_count, rh_delay, ul_pc, ul_job, ul_path>>

PollDownload == PollDownloadBody /\ UNCHANGED firstClaims

\* DownloadPooler.start, one iteration that finds no download but an upload
PollUpload ==
    /\ alive /\ running
    /\ dl_pc # "created" /\ ul_pc # "created"
    /\ current_download_id = NoJob
    /\ get_next_pending_download = NoJob
    /\ current_upload_id = NoJob
    /\ get_next_completed_upload # NoJob
    /\ ul_pc' = "created"
    /\ ul_job' = get_next_completed_upload
    /\ ul_path' = file_path[get_next_completed_upload]
    /\ UNCHANGED <<storeVars, qmVars, histVars>>
    /\ UNCHANGED <<alive, running, current_download_id, current_upload_id,
                   dl_pc, dl_job, rh_retry_count, rh_delay>>

\* ------------------------------------------- pooler: _process_download
\* the task starts: takes the slot and writes status 'downloading'
StartDownload ==
    /\ alive /\ dl_pc = "created"
    /\ current_download_id' = dl_job
    /\ status' = update_download_status(status, dl_job, "downloading")
    /\ dl_pc' = "monitor"
    /\ UNCHANGED <<rows, nextId, paused, cancelled, priority, retry_count,
                   file_path, file_id>>
    /\ UNCHANGED <<alive, running, current_upload_id, dl_job,
                   rh_retry_count, rh_delay, ul_pc, ul_job, ul_path>>
    /\ UNCHANGED <<qmVars, histVars>>

\* the engine reports 'complete' and the file is found: the monitor and
\* _process_download write 'downloaded' and the file path, the slot is freed
FetchCompleteBody ==
    /\ alive /\ dl_pc = "monitor"
    /\ status' = update_download_status(status, dl_job, "downloaded")
    /\ file_path' = IF dl_job \in rows THEN [file_path EXCEPT ![dl_job] = TRUE]
                    ELSE file_path
    /\ current_download_id' = NoJob
    /\ dl_pc' = "none"
    /\ dl_job' = NoJob
    /\ errs' = [errs EXCEPT ![dl_job] = 0]
    /\ UNCHANGED <<rows, nextId, paused, cancelled, priority, retry_count,
                   file_id>>
    /\ UNCHANGED <<alive, running, current_upload_id, rh_retry_count,
                   rh_delay, ul_pc, ul_job, ul_path>>
    /\ UNCHANGED <<qmVars, ops, firstClaims, resumed>>

\* the progress column is followed in SpecProgress only
FetchComplete == FetchCompleteBody /\ UNCHANGED auxVars

WillRetry_off(rc) == rc <= MAX_RETRIES

\* RetryHandler.handle_failure: if retry_count < self.MAX_RETRIES
WillRetry(rc) == rc < MAX_RETRIES

\* RetryHandler.handle_failure: delay = BASE_DELAY * (2 ** retry_count)
BackoffDelay(rc) == BASE_DELAY * Pow2(rc)

\* the extraction or the monitor raises (kind "engine": the engine reports
\* error or removed); _process_download calls handle_failure, which runs
\* up to its sleep or to its end
FetchFail(kind) ==
    /\ alive /\ dl_pc = "monitor"
    /\ errs' = [errs EXCEPT ![dl_job] =
                    IF kind = "engine" /\ dl_job \in rows THEN @ + 1 ELSE 0]
    /\ IF dl_job \notin rows
       THEN \* increment_retry: fetchone() is None, TypeError ends the task
            /\ current_download_id' = NoJob
            /\ dl_pc' = "none"
            /\ dl_job' = NoJob
            /\ UNCHANGED <<storeVars, rh_retry_count, rh_delay>>
       ELSE LET rcs == increment_retry(retry_count, dl_job)
                rc  == rcs[dl_job]
            IN  /\ retry_count' = rcs
                /\ IF WillRetry(rc)
                   THEN /\ rh_retry_count' = rc
                        /\ rh_delay' = BackoffDelay(rc)
                        /\ dl_pc' = "backoff"
                        /\ UNCHANGED <<status, current_download_id, dl_job>>
                   ELSE /\ status' = update_download_status(status, dl_job, "failed")
                        /\ current_download_id' = NoJob
                        /\ dl_pc' = "none"
                        /\ dl_job' = NoJob
                        /\ UNCHANGED <<rh_retry_count, rh_delay>>
                /\ UNCHANGED <<rows, nextId, paused, cancelled, priority,
                               file_path, file_id>>
    /\ UNCHANGED <<alive, running, current_upload_id, ul_pc, ul_job, ul_path>>
    /\ UNCHANGED <<qmVars, ops, firstClaims, resumed, auxVars>>

\* handle_failure after its sleep: status 'pending', return True; the
\* finally clause of _process_download frees the slot
BackoffWake ==
    /\ alive /\ dl_pc = "backoff"
    /\ status' = update_download_status(status, dl_job, "pending")
    /\ current_download_id' = NoJob
    /\ dl_pc' = "none"
    /\ dl_job' = NoJob
    /\ rh_retry_count' = 0
    /\ rh_delay' = 0
    /\ UNCHANGED <<rows, nextId, paused, cancelled, priority, retry_count,
                   file_path, file_id>>
    /\ UNCHANGED <<alive, running, current_upload_id, ul_pc, ul_job, ul_path>>
    /\ UNCHANGED <<qmVars, histVars>>

\* --------------------------------------------- pooler: _process_upload
\* the task starts: takes the slot; UploadHandler.upload returns None when
\* the file is missing (os.path.exists(None) raises, caught by the task),
\* otherwise writes status 'uploading' and starts sending
StartUploadWith(exists) ==
    /\ alive /\ ul_pc = "created"
    /\ IF ul_path /\ exists
       THEN /\ current_upload_id' = ul_job
            /\ status' = update_download_status(status, ul_job, "uploading")
            /\ ul_pc' = "sending"
            /\ UNCHANGED <<ul_job, ul_path>>
       ELSE /\ current_upload_id' = NoJob
            /\ ul_pc' = "none"
            /\ ul_job' = NoJob
            /\ ul_path' = FALSE
            /\ UNCHANGED status
    /\ UNCHANGED <<rows, nextId, paused, cancelled, priority, retry_count,
                   file_path, file_id>>
    /\ UNCHANGED <<alive, running, current_download_id, dl_pc, dl_job,
                   rh_retry_count, rh_delay>>
    /\ UNCHANGED <<qmVars, errs, ops, firstClaims, resumed>>

\* os.path.exists(file_path) answers either way
StartUploadBody == \E exists \in BOOLEAN : StartUploadWith(exists)

\* the progress column is followed in SpecDeliver only
StartUpload == StartUploadBody /\ UNCHANGED auxVars

\* outcomes of _upload_userbot: self.userbot is None, the attempt throws or
\* returns no file id (both return None), or it returns a file id
UserbotOutcomes == {"absent", "fails", "ok"}

\* outcomes of _upload_bot: it throws or returns no file id, or a file id
BotOutcomes == {"fails", "ok"}

upload_file_id_off(ub, bt) == IF ub = "ok" THEN "userbot" ELSE NoRef

\* UploadHandler.upload: the userbot first, the bot if there is no file id
upload_file_id(ub, bt) ==
    IF ub = "ok" THEN "userbot" ELSE IF bt = "ok" THEN "bot" ELSE NoRef

\* UploadHandler.upload after the userbot and bot attempts: a file_id is
\* stored by update_download_file_id, or the status reverts to 'downloaded'
UploadDone(ub, bt) ==
    /\ alive /\ ul_pc = "sending"
    /\ IF upload_file_id(ub, bt) # NoRef
       THEN /\ status' = update_download_status(status, ul_job, "uploaded")
            /\ file_id' = IF ul_job \in rows
                          THEN [file_id EXCEPT ![ul_job] = upload_file_id(ub, bt)]
                          ELSE file_id
            /\ file_path' = IF ul_job \in rows
                            THEN [file_path EXCEPT ![ul_job] = TRUE]
                            ELSE file_path
       ELSE /\ status' = update_download_status(status, ul_job, "downloaded")
            /\ UNCHANGED <<file_id, file_path>>
    /\ current_upload_id' = NoJob
    /\ ul_pc' = "none"
    /\ ul_job' = NoJob
    /\ ul_path' = FALSE
    /\ UNCHANGED <<rows, nextId, paused, cancelled, priority, retry_count>>
    /\ UNCHANGED <<alive, running, current_download_id, dl_pc, dl_job,
                   rh_retry_count, rh_delay>>
    /\ UNCHANGED <<qmVars, histVars>>

\* ------------------------------------------------ pooler: process life
\* in-process state of a process that no longer exists
ProcessGone ==
    /\ alive' = FALSE
    /\ running' = FALSE
    /\ current_download_id' = NoJob
    /\ current_upload_id' = NoJob
    /\ dl_pc' = "none"
    /\ dl_job' = NoJob
    /\ rh_retry_count' = 0
    /\ rh_delay' = 0
    /\ ul_pc' = "none"
    /\ ul_job' = NoJob
    /\ ul_path' = FALSE

\* SIGKILL (PoolerProcess.stop / DownloadProcess.stop after the timeout,
\* or a crash): the store keeps whatever was last committed
Kill ==
    /\ alive
    /\ ProcessGone
    /\ UNCHANGED <<storeVars, qmVars, histVars>>

\* run_pooler_process: a new DownloadPooler on the same database
Restart ==
    /\ ~alive
    /\ alive' = TRUE
    /\ running' = TRUE
    /\ UNCHANGED <<current_download_id, current_upload_id, dl_pc, dl_job,
                   rh_retry_count, rh_delay, ul_pc, ul_job, ul_path>>
    /\ UNCHANGED <<storeVars, qmVars, histVars>>

\* DownloadPooler._signal_handler; sig_dl and sig_ul record what was in
\* flight
Signal ==
    /\ alive /\ running
    /\ running' = FALSE
    /\ sig_dl' = current_download_id
    /\ sig_ul' = current_upload_id
    /\ UNCHANGED <<alive, current_download_id, current_upload_id, dl_pc,
                   dl_job, rh_retry_count, rh_delay, ul_pc, ul_job, ul_path>>
    /\ UNCHANGED <<storeVars, qmVars, errs, ops, firstClaims, resumed,
                   fsize, ticks, umVars, progress, sent, updated_at, envVars>>

Shutdown_off ==
    /\ alive /\ ~running
    /\ dl_pc # "created" /\ ul_pc # "created"
    /\ ProcessGone
    /\ UNCHANGED <<storeVars, qmVars, histVars>>

\* DownloadPooler._shutdown: the wait on the already set shutdown_event
\* returns at once, the loop on current_upload_id waits for the upload;
\* asyncio.run then cancels the download task and the process exits
Shutdown ==
    /\ alive /\ ~running
    /\ dl_pc # "created" /\ ul_pc = "none"
    /\ current_upload_id = NoJob
    /\ ProcessGone
    /\ UNCHANGED <<storeVars, qmVars, histVars>>


\* ---------------------------------------------------------- user control
UserFrame == UNCHANGED <<poolerVars, qmVars, histVars>>

\* one more user-control request
ControlFrame ==
    /\ ops < MaxUserOps
    /\ ops' = ops + 1
    /\ UNCHANGED <<poolerVars, qmVars, firstClaims, auxVars>>

\* DatabaseManager.add_to_queue: a new row with the column defaults
Enqueue ==
    /\ nextId <= MaxJobs
    /\ rows' = rows \cup {nextId}
    /\ nextId' = nextId + 1
    /\ UNCHANGED <<status, paused, cancelled, priority, retry_count,
                   file_path, file_id>>
    /\ UserFrame

\* handle_pause: set_paused(download_id, paused=True), whatever the status
Pause(j) ==
    /\ j \in rows /\ ~paused[j]
    /\ paused' = [paused EXCEPT ![j] = TRUE]
    /\ UNCHANGED <<rows, nextId, status, cancelled, priority, retry_count,
                   file_path, file_id>>
    /\ ControlFrame /\ UNCHANGED errs /\ resumed' = resumed \ {j}

Resume_off(j) ==
    /\ j \in rows /\ paused[j]
    /\ paused' = [paused EXCEPT ![j] = FALSE]
    /\ retry_count' = [retry_count EXCEPT ![j] = 0]
    /\ UNCHANGED <<rows, nextId, status, cancelled, priority,
                   file_path, file_id>>
    /\ UNCHANGED <<poolerVars, qmVars, errs, ops, firstClaims, auxVars>>
    /\ resumed' = resumed \cup {j}

\* handle_resume: set_paused(download_id, paused=False); not counted in ops
Resume(j) ==
    /\ j \in rows /\ paused[j]
    /\ paused' = [paused EXCEPT ![j] = FALSE]
    /\ UNCHANGED <<rows, nextId, status, cancelled, priority, retry_count,
                   file_path, file_id>>
    /\ UNCHANGED <<poolerVars, qmVars, errs, ops, firstClaims, auxVars>>
    /\ resumed' = resumed \cup {j}

\* handle_cancel: cancel_download writes 'failed' unless the status is
\* 'completed' or 'failed'
CancelDownload(j) ==
    /\ j \in rows /\ status[j] \notin {"completed", "failed"}
    /\ status' = [status EXCEPT ![j] = "failed"]
    /\ UNCHANGED <<rows, nextId, paused, cancelled, priority, retry_count,
                   file_path, file_id>>
    /\ ControlFrame /\ UNCHANGED <<errs, resumed>>

\* DatabaseManager.mark_cancelled: cancelled = 1, status = 'cancelled'
MarkCancelled(j) ==
    /\ j \in rows /\ ~cancelled[j]
    /\ cancelled' = [cancelled EXCEPT ![j] = TRUE]
    /\ status' = [status EXCEPT ![j] = "cancelled"]
    /\ UNCHANGED <<rows, nextId, paused, priority, retry_count,
                   file_path, file_id>>
    /\ ControlFrame /\ UNCHANGED <<errs, resumed>>

\* handle_queue_callback, queue_download: set_queue_priority(item_id, 999)
DownloadNow(j) ==
    /\ j \in rows /\ priority[j] # PRIORITY_NOW
    /\ priority' = [priority EXCEPT ![j] = PRIORITY_NOW]
    /\ UNCHANGED <<rows, nextId, status, paused, cancelled, retry_count,
                   file_path, file_id>>
    /\ ControlFrame /\ UNCHANGED <<errs, resumed>>

\* DatabaseManager.set_queue_priority with a caller-chosen priority
SetPriority(j, p) ==
    /\ j \in rows /\ priority[j] # p
    /\ priority' = [priority EXCEPT ![j] = p]
    /\ UNCHANGED <<rows, nextId, status, paused, cancelled, retry_count,
                   file_path, file_id>>
    /\ ControlFrame /\ UNCHANGED <<errs, resumed>>

\* handle_queue_callback, queue_delete: delete_queue_item(item_id); the
\* columns of an absent row are kept at the defaults
Delete(j) ==
    /\ j \in rows
    /\ rows' = rows \ {j}
    /\ status' = [status EXCEPT ![j] = "pending"]
    /\ paused' = [paused EXCEPT ![j] = FALSE]
    /\ cancelled' = [cancelled EXCEPT ![j] = FALSE]
    /\ priority' = [priority EXCEPT ![j] = 0]
    /\ retry_count' = [retry_count EXCEPT ![j] = 0]
    /\ file_path' = [file_path EXCEPT ![j] = FALSE]
    /\ file_id' = [file_id EXCEPT ![j] = NoRef]
    /\ UNCHANGED nextId
    /\ ControlFrame /\ errs' = [errs EXCEPT ![j] = 0] /\ resumed' = resumed \ {j}

\* ---------------------------------------------------------- QueueManager
QMFrame == UNCHANGED <<poolerVars, histVars>>

\* QueueManager.start: no active download, get_next_pending returns a row;
\* _process_download begins (retry_count = 0, progress message sent)
QMClaim ==
    /\ qm_pc = "idle"
    /\ get_active_download = NoJob
    /\ get_next_pending # NoJob
    /\ qm_pc' = "attempt"
    /\ qm_job' = get_next_pending
    /\ qm_retry_count' = 0
    /\ UNCHANGED storeVars
    /\ QMFrame

\* QueueManager._process_download: if retry_count > len(self.RETRY_DELAYS)
QMGiveUp(rc) == rc > Len(RETRY_DELAYS)

\* one pass of the while loop: status 'downloading', the handler raises
\* (the handlers are placeholders), increment_retry, then give up or sleep
QMAttempt ==
    /\ qm_pc = "attempt"
    /\ IF qm_job \notin rows
       THEN \* increment_retry raises; QueueManager.start logs and goes on
            /\ qm_pc' = "idle"
            /\ qm_job' = NoJob
            /\ qm_retry_count' = 0
            /\ UNCHANGED storeVars
       ELSE LET rcs == increment_retry(retry_count, qm_job)
                rc  == rcs[qm_job]
            IN  /\ retry_count' = rcs
                /\ IF QMGiveUp(rc)
                   THEN /\ status' = [status EXCEPT ![qm_job] = "failed"]
                        /\ qm_pc' = "idle"
                        /\ qm_job' = NoJob
                        /\ qm_retry_count' = 0
                   ELSE /\ status' = [status EXCEPT ![qm_job] = "downloading"]
                        /\ qm_pc' = "sleep"
                        /\ qm_retry_count' = rc
                        /\ UNCHANGED qm_job
                /\ UNCHANGED <<rows, nextId, paused, cancelled, priority,
                               file_path, file_id>>
    /\ QMFrame

\* the sleep of RETRY_DELAYS[retry_count - 1] ends; the loop condition
\* retry_count <= len(self.RETRY_DELAYS) holds
QMWake ==
    /\ qm_pc = "sleep"
    /\ qm_retry_count <= Len(RETRY_DELAYS)
    /\ qm_pc' = "attempt"
    /\ UNCHANGED <<qm_job, qm_retry_count>>
    /\ UNCHANGED storeVars
    /\ QMFrame

\* -------------------------------------------------------- specifications
UserNext ==
    \/ Enqueue
    \/ \E j \in Ids : Pause(j)
    \/ \E j \in Ids : Resume(j)
    \/ \E j \in Ids : CancelDownload(j)
    \/ \E j \in Ids : MarkCancelled(j)
    \/ \E j \in Ids : DownloadNow(j)
    \/ \E j \in Ids : Delete(j)

PoolerNext ==
    \/ PollUpload
    \/ StartDownload
    \/ FetchComplete
    \/ \E kind \in {"engine", "other"} : FetchFail(kind)
    \/ BackoffWake
    \/ StartUpload
    \/ \E ub \in UserbotOutcomes, bt \in BotOutcomes : UploadDone(ub, bt)
    \/ Kill
    \/ Restart

Next ==
    \/ PollDownload
    \/ PoolerNext
    \/ UserNext

\* the pooler of src/pooler with the Job Store and user control
Spec == Init /\ [][Next]_vars

NextQM ==
    \/ QMClaim
    \/ QMAttempt
    \/ QMWake
    \/ UserNext

\* the QueueManager of src/queue_manager.py with the Job Store
SpecQM == Init /\ [][NextQM]_vars


\* QueueManager.mark_completed: update_download_status(id, 'completed')
MarkCompleted(j) ==
    /\ j \in rows /\ status[j] # "completed"
    /\ status' = update_download_status(status, j, "completed")
    /\ UNCHANGED <<rows, nextId, paused, cancelled, priority, retry_count,
                   file_path, file_id>>
    /\ UNCHANGED <<poolerVars, qmVars, histVars>>

NextQMApi ==
    \/ NextQM
    \/ \E j \in Ids : MarkCompleted(j)

\* QueueManager with the mark_completed it offers to the fetch handlers
SpecQMApi == Init /\ [][NextQMApi]_vars

\* the same pooler with the termination signal, without user control
NextStop ==
    \/ Enqueue
    \/ PollDownload
    \/ PoolerNext
    \/ Signal
    \/ Shutdown

SpecStop == Init /\ [][NextStop]_vars

\* --------------------------------------------- scheduling-order scenario
\* OrderJobs pending rows whose priorities were set by set_queue_priority
InitOrder ==
    /\ rows = 1..OrderJobs
    /\ nextId = OrderJobs + 1
    /\ status = [j \in Ids |-> "pending"]
    /\ paused = [j \in Ids |-> FALSE]
    /\ cancelled = [j \in Ids |-> FALSE]
    /\ priority \in [Ids -> PrioritySet \cup {0}]
    /\ \A j \in Ids : priority[j] = 0 <=> j \notin 1..OrderJobs
    /\ retry_count = [j \in Ids |-> 0]
    /\ file_path = [j \in Ids |-> FALSE]
    /\ file_id = [j \in Ids |-> NoRef]
    /\ InitPooler /\ InitQM /\ InitHist

\* PollDownload, recording the order in which rows are claimed first
PollDownloadOrder ==
    /\ PollDownloadBody
    /\ firstClaims' =
         IF \E i \in 1..Len(firstClaims) : firstClaims[i] = get_next_pending_download
         THEN firstClaims
         ELSE Append(firstClaims, get_next_pending_download)

\* the fetch stage only: the delivery stage never changes what
\* get_next_pending_download returns
NextOrder ==
    \/ PollDownloadOrder
    \/ StartDownload
    \/ FetchComplete
    \/ FetchFail("engine")
    \/ BackoffWake
    \/ Kill
    \/ Restart
    \/ \E j \in Ids, p \in PrioritySet : SetPriority(j, p)

SpecOrder == InitOrder /\ [][NextOrder]_vars

\* ------------------------------------- the commits that end a fetch
\* DirectDownloader._monitor_download, the iteration that finds the engine
\* status 'complete' and the file: update_download_status commits
\* 'downloaded', the path is returned to _process_download
MonitorComplete ==
    /\ alive /\ dl_pc = "monitor"
    /\ status' = update_download_status(status, dl_job, "downloaded")
    /\ dl_pc' = "saving"
    /\ UNCHANGED <<rows, nextId, paused, cancelled, priority, retry_count,
                   file_path, file_id>>
    /\ UNCHANGED <<alive, running, current_download_id, current_upload_id,
                   dl_job, rh_retry_count, rh_delay, ul_pc, ul_job, ul_path>>
    /\ UNCHANGED <<qmVars, histVars>>

\* _process_download after the handler returned: 'downloaded' is written
\* again, then the UPDATE of file_path is committed; finally frees the slot
SaveFilePath ==
    /\ alive /\ dl_pc = "saving"
    /\ status' = update_download_status(status, dl_job, "downloaded")
    /\ file_path' = IF dl_job \in rows THEN [file_path EXCEPT ![dl_job] = TRUE]
                    ELSE file_path
    /\ current_download_id' = NoJob
    /\ dl_pc' = "none"
    /\ dl_job' = NoJob
    /\ errs' = [errs EXCEPT ![dl_job] = 0]
    /\ UNCHANGED <<rows, nextId, paused, cancelled, priority, retry_count,
                   file_id>>
    /\ UNCHANGED <<alive, running, current_upload_id, rh_retry_count,
                   rh_delay, ul_pc, ul_job, ul_path>>
    /\ UNCHANGED <<qmVars, ops, firstClaims, resumed, auxVars>>

NextCommit ==
    \/ Enqueue
    \/ PollDownload
    \/ StartDownload
    \/ MonitorComplete
    \/ SaveFilePath
    \/ \E kind \in {"engine", "other"} : FetchFail(kind)
    \/ BackoffWake
    \/ PollUpload
    \/ StartUpload
    \/ \E ub \in UserbotOutcomes, bt \in BotOutcomes : UploadDone(ub, bt)
    \/ Kill
    \/ Restart

\* the pooler with each commit of a fetch's completion as its own step
SpecCommit == Init /\ [][NextCommit]_vars

\* ------------------------------------------------- cancel during a fetch
\* DirectDownloader._monitor_download, one iteration with the engine status
\* 'active' (or 'waiting'): get_download, update_progress, sleep 2 s; the
\* row's status and cancelled flag are not read
MonitorTick ==
    /\ alive /\ dl_pc = "monitor"
    /\ ticks < MaxTicks
    /\ ticks' = ticks + 1
    /\ UNCHANGED <<storeVars, poolerVars, qmVars, errs, ops, firstClaims,
                   resumed, fsize, umVars, progress, sigVars, sent, updated_at, envVars>>

NextCancel ==
    \/ Enqueue
    \/ PollDownload
    \/ StartDownload
    \/ MonitorTick
    \/ FetchComplete
    \/ \E kind \in {"engine", "other"} : FetchFail(kind)
    \/ BackoffWake
    \/ \E j \in Ids : CancelDownload(j)
    \/ \E j \in Ids : MarkCancelled(j)

\* the pooler's fetch with its monitor loop, and the two cancel writes
SpecCancel == Init /\ [][NextCancel]_vars

\* the fetch side of the pooler with the signal and the monitor's ticks
NextHalt ==
    \/ Enqueue
    \/ PollDownload
    \/ StartDownload
    \/ MonitorTick
    \/ FetchComplete
    \/ \E kind \in {"engine", "other"} : FetchFail(kind)
    \/ BackoffWake
    \/ Signal
    \/ Shutdown

SpecHalt == Init /\ [][NextHalt]_vars

\* ------------------------------------------------- the progress column
\* values of progress a monitor iteration computes for a running transfer
ProgressSet == {0, 50}

\* DirectDownloader._monitor_download, one iteration with the engine
\* 'active': update_progress writes the computed progress
MonitorReport(p) ==
    /\ alive /\ dl_pc = "monitor"
    /\ progress' = IF dl_job \in rows THEN [progress EXCEPT ![dl_job] = p]
                   ELSE progress
    /\ UNCHANGED <<storeVars, poolerVars, qmVars, errs, ops, firstClaims,
                   resumed, fsize, ticks, umVars, sigVars, sent, updated_at, envVars>>

\* the completion of a fetch with its update_progress(progress=100)
FetchCompleteProgress ==
    /\ FetchCompleteBody
    /\ progress' = IF dl_job \in rows THEN [progress EXCEPT ![dl_job] = 100]
                   ELSE progress
    /\ UNCHANGED <<fsize, ticks, umVars, sigVars, sent, updated_at, envVars>>

NextProgress ==
    \/ Enqueue
    \/ PollDownload
    \/ StartDownload
    \/ \E p \in ProgressSet : MonitorReport(p)
    \/ FetchCompleteProgress
    \/ \E kind \in {"engine", "other"} : FetchFail(kind)
    \/ BackoffWake
    \/ Kill
    \/ Restart

\* the fetch side of the pooler with the progress column
SpecProgress == Init /\ [][NextProgress]_vars

\* ---------------------------------------- progress during a delivery
\* the upload starts; Telethon's callback has reported nothing yet
StartUploadProgress ==
    /\ StartUploadBody
    /\ sent' = 0
    /\ UNCHANGED <<fsize, ticks, umVars, progress, sigVars, updated_at, envVars>>

\* UploadHandler._upload_progress, called by Telethon's send_file with a
\* growing number of bytes sent: update_progress(int(sent / total * 100))
UploadReport(p) ==
    /\ alive /\ ul_pc = "sending"
    /\ p >= sent
    /\ sent' = p
    /\ progress' = IF ul_job \in rows THEN [progress EXCEPT ![ul_job] = p]
                   ELSE progress
    /\ UNCHANGED <<storeVars, poolerVars, qmVars, errs, ops, firstClaims,
                   resumed, fsize, ticks, umVars, sigVars, updated_at, envVars>>

NextDeliver ==
    \/ Enqueue
    \/ PollDownload
    \/ StartDownload
    \/ FetchCompleteProgress
    \/ PollUpload
    \/ StartUploadProgress
    \/ \E p \in ProgressSet : UploadReport(p)
    \/ \E ub \in UserbotOutcomes, bt \in BotOutcomes : UploadDone(ub, bt)

\* fetch and delivery of the pooler with the progress column
SpecDeliver == Init /\ [][NextDeliver]_vars

\* ------------------------------------- the store's writes and updated_at
\* updated_at = datetime.now().isoformat(): a value later than the stored one
touch(j) == [updated_at EXCEPT ![j] = @ + 1]

StampFrame ==
    UNCHANGED <<rows, nextId, poolerVars, qmVars, errs, ops, firstClaims,
                resumed, fsize, ticks, umVars, progress, sigVars, sent,
                envVars>>

\* DatabaseManager.update_download_status: SET status, error_message,
\* updated_at
UpdateStatusWrite(j, s) ==
    /\ j \in rows /\ updated_at[j] < MaxStamps
    /\ status' = [status EXCEPT ![j] = s]
    /\ updated_at' = touch(j)
    /\ UNCHANGED <<paused, cancelled, priority, retry_count, file_path, file_id>>
    /\ StampFrame

\* DatabaseManager.set_paused: SET paused, pause_reason, updated_at
SetPausedWrite(j, b) ==
    /\ j \in rows /\ updated_at[j] < MaxStamps
    /\ paused' = [paused EXCEPT ![j] = b]
    /\ updated_at' = touch(j)
    /\ UNCHANGED <<status, cancelled, priority, retry_count, file_path, file_id>>
    /\ StampFrame

\* DatabaseManager.update_file_path: SET file_path
UpdateFilePathWrite(j) ==
    /\ j \in rows
    /\ file_path' = [file_path EXCEPT ![j] = TRUE]
    /\ UNCHANGED <<status, paused, cancelled, priority, retry_count, file_id,
                   updated_at, envVars>>
    /\ StampFrame

\* DatabaseManager.mark_cancelled: SET cancelled = 1, status = 'cancelled'
MarkCancelledWrite(j) ==
    /\ j \in rows
    /\ cancelled' = [cancelled EXCEPT ![j] = TRUE]
    /\ status' = [status EXCEPT ![j] = "cancelled"]
    /\ UNCHANGED <<paused, priority, retry_count, file_path, file_id,
                   updated_at, envVars>>
    /\ StampFrame

NextStamp ==
    \/ Enqueue
    \/ \E j \in Ids, s \in {"downloading", "downloaded"} : UpdateStatusWrite(j, s)
    \/ \E j \in Ids, b \in BOOLEAN : SetPausedWrite(j, b)
    \/ \E j \in Ids : UpdateFilePathWrite(j)
    \/ \E j \in Ids : MarkCancelledWrite(j)

\* writes of DatabaseManager on the downloads table, with updated_at
SpecStamp == Init /\ [][NextStamp]_vars

\* ------------------------------------------- Aria2cDownloader's monitor
\* download.status as aria2c reports it
EngineStatuses == {"active", "complete", "error", "removed"}

\* DirectDownloader._monitor_download: what one iteration does with the
\* engine status; DownloadError passes the except clause of the loop
monitor_outcome(engine) ==
    CASE engine = "complete" -> "return"
      [] engine \in {"error", "removed"} -> "raise"
      [] OTHER -> "sleep"

\* Aria2cDownloader._monitor_download, row not cancelled: the Exception
\* raised for 'error' and 'removed' is caught by the except clause of the
\* loop, which re-raises only a message with "cancelled by user", logs,
\* sleeps 2 s and iterates
aria2c_monitor_outcome(engine) ==
    CASE engine = "complete" -> "return"
      [] engine \in {"error", "removed"} -> "sleep"
      [] OTHER -> "sleep"

\* one iteration of Aria2cDownloader._monitor_download for a row whose
\* cancelled flag is not set, awaited by _process_download
AriaMonitorStep(engine) ==
    /\ dl_job \in rows => ~cancelled[dl_job]
    /\ CASE aria2c_monitor_outcome(engine) = "return" -> FetchComplete
         [] aria2c_monitor_outcome(engine) = "raise" -> FetchFail("engine")
         [] OTHER -> MonitorTick

NextAria ==
    \/ Enqueue
    \/ PollDownload
    \/ StartDownload
    \/ \E engine \in EngineStatuses : AriaMonitorStep(engine)
    \/ \E j \in Ids : Pause(j)
    \/ \E j \in Ids : Resume(j)
    \/ \E j \in Ids : DownloadNow(j)

\* a fetch that is monitored by Aria2cDownloader
SpecAria == Init /\ [][NextAria]_vars

\* --------------------------------------------------------- UploadManager
UMFrame ==
    /\ UNCHANGED <<rows, nextId, paused, cancelled, priority, retry_count>>
    /\ UNCHANGED <<poolerVars, qmVars, errs, ops, firstClaims, resumed,
                   fsize, ticks, progress, sigVars, sent, updated_at, envVars>>

\* UploadManager.process_queue: get_next_completed_upload returns a row,
\* the loop over attempts begins
UMClaim ==
    /\ um_pc = "idle"
    /\ get_next_completed_upload # NoJob
    /\ um_pc' = "attempt"
    /\ um_job' = get_next_completed_upload
    /\ um_attempt' = 0
    /\ UNCHANGED <<status, file_path, file_id>>
    /\ UMFrame

\* process_queue after an attempt that returned False: sleep before the
\* next attempt, or leave the loop after the last one
UMAfterFailure ==
    IF um_attempt < UM_MAX_RETRIES - 1
    THEN um_pc' = "wait" /\ UNCHANGED <<um_job, um_attempt>>
    ELSE um_pc' = "idle" /\ um_job' = NoJob /\ um_attempt' = 0

\* _upload_single up to the upload: verify_file fails and _mark_failed
\* writes 'failed', or the status becomes 'uploading'
UMStart(exists) ==
    /\ um_pc = "attempt"
    /\ IF exists
       THEN /\ status' = update_download_status(status, um_job, "uploading")
            /\ um_pc' = "sending"
            /\ UNCHANGED <<um_job, um_attempt>>
       ELSE /\ status' = update_download_status(status, um_job, "failed")
            /\ UMAfterFailure
    /\ UNCHANGED <<file_path, file_id>>
    /\ UMFrame

\* _upload_single after uploader.upload_file: the file id is stored by
\* update_download_file_id, or _mark_failed writes 'failed'
UMDone(ok) ==
    /\ um_pc = "sending"
    /\ IF ok
       THEN /\ status' = update_download_status(status, um_job, "uploaded")
            /\ file_id' = IF um_job \in rows
                          THEN [file_id EXCEPT ![um_job] = "userbot"]
                          ELSE file_id
            /\ um_pc' = "idle" /\ um_job' = NoJob /\ um_attempt' = 0
       ELSE /\ status' = update_download_status(status, um_job, "failed")
            /\ UNCHANGED file_id
            /\ UMAfterFailure
    /\ UNCHANGED file_path
    /\ UMFrame

\* the sleep between two attempts ends
UMWake ==
    /\ um_pc = "wait"
    /\ um_pc' = "attempt"
    /\ um_attempt' = um_attempt + 1
    /\ UNCHANGED <<um_job, status, file_path, file_id>>
    /\ UMFrame

\* rows fetched by the pooler of src/download_module, waiting for upload
InitUM ==
    /\ rows = 1..MaxJobs
    /\ nextId = MaxJobs + 1
    /\ status = [j \in Ids |-> IF j \in 1..MaxJobs THEN "downloaded" ELSE "pending"]
    /\ paused = [j \in Ids |-> FALSE]
    /\ cancelled = [j \in Ids |-> FALSE]
    /\ priority = [j \in Ids |-> 0]
    /\ retry_count = [j \in Ids |-> 0]
    /\ file_path = [j \in Ids |-> j \in 1..MaxJobs]
    /\ file_id = [j \in Ids |-> NoRef]
    /\ InitPooler /\ InitQM /\ InitHist

NextUM ==
    \/ UMClaim
    \/ \E exists \in BOOLEAN : UMStart(exists)
    \/ \E ok \in BOOLEAN : UMDone(ok)
    \/ UMWake
    \/ \E j \in Ids : CancelDownload(j)
    \/ \E j \in Ids : Delete(j)

\* the UploadManager of src/upload_module with the Job Store
SpecUM == InitUM /\ [][NextUM]_vars

\* ------------------------------------------------- size limit scenario
\* QueueManager.add_to_queue for a URL whose file has size sz; given is
\* whether the caller passes file_size
QMAddToQueue(given, sz) ==
    /\ nextId <= MaxJobs
    /\ rows' = rows \cup {nextId}
    /\ nextId' = nextId + 1
    /\ fsize' = [fsize EXCEPT ![nextId] = sz]
    /\ status' = IF given /\ sz >= MAX_FILE_SIZE
                 THEN [status EXCEPT ![nextId] = "failed"]
                 ELSE status
    /\ UNCHANGED <<paused, cancelled, priority, retry_count, file_path, file_id>>
    /\ UNCHANGED <<poolerVars, qmVars, errs, ops, firstClaims, resumed,
                   ticks, umVars, progress, sigVars, sent, updated_at, envVars>>

\* bot.py handle_download / handle_torrent: add_to_queue(url, source, chat_id),
\* no file_size
HandleUrl(sz) == QMAddToQueue(FALSE, sz)

NextSize ==
    \/ \E sz \in SizeSet : HandleUrl(sz)
    \/ \E sz \in SizeSet : QMAddToQueue(TRUE, sz)
    \/ PollDownload
    \/ StartDownload
    \/ FetchComplete
    \/ \E kind \in {"engine", "other"} : FetchFail(kind)
    \/ BackoffWake

\* the fetch stage for jobs of known remote size
SpecSize == Init /\ [][NextSize]_vars

\* ------------------------------ the aria2c monitor and a finished engine
TerminalStatuses == {"complete", "error", "removed"}

\* _process_download up to the first look of the monitor: the slot is
\* taken, 'downloading' is written and aria2.addUri starts a transfer
AriaStartDownload ==
    /\ alive /\ dl_pc = "created"
    /\ current_download_id' = dl_job
    /\ status' = update_download_status(status, dl_job, "downloading")
    /\ dl_pc' = "monitor"
    /\ gid_status' = "active"
    /\ UNCHANGED <<rows, nextId, paused, cancelled, priority, retry_count,
                   file_path, file_id>>
    /\ UNCHANGED <<alive, running, current_upload_id, dl_job,
                   rh_retry_count, rh_delay, ul_pc, ul_job, ul_path>>
    /\ UNCHANGED <<qmVars, errs, ops, firstClaims, resumed, fsize, ticks,
                   umVars, progress, sigVars, sent, updated_at, url,
                   url_type, missing>>

\* aria2c ends the transfer: tellStatus answers e from now on
EngineReports(e) ==
    /\ dl_pc = "monitor" /\ gid_status = "active"
    /\ gid_status' = e
    /\ UNCHANGED <<storeVars, poolerVars, qmVars, errs, ops, firstClaims,
                   resumed, fsize, ticks, umVars, progress, sigVars, sent,
                   updated_at, url, url_type, missing>>

\* await asyncio.sleep(2) and the next iteration of the while True loop
AriaSleep ==
    /\ ticks' = (ticks + 1) % (MaxTicks + 1)
    /\ UNCHANGED <<storeVars, poolerVars, qmVars, errs, ops, firstClaims,
                   resumed, fsize, umVars, progress, sigVars, sent,
                   updated_at, envVars>>

\* one iteration of Aria2cDownloader._monitor_download on the status the
\* engine holds
AriaMonitorLoop ==
    /\ alive /\ dl_pc = "monitor"
    /\ dl_job \in rows => ~cancelled[dl_job]
    /\ CASE aria2c_monitor_outcome(gid_status) = "return" -> FetchComplete
         [] aria2c_monitor_outcome(gid_status) = "raise" -> FetchFail("engine")
         [] OTHER -> AriaSleep

NextAriaEnd ==
    \/ Enqueue
    \/ PollDownload
    \/ AriaStartDownload
    \/ \E e \in TerminalStatuses : EngineReports(e)
    \/ AriaMonitorLoop
    \/ \E j \in Ids : Pause(j)
    \/ \E j \in Ids : Resume(j)
    \/ \E j \in Ids : DownloadNow(j)

\* the loop of the pooler, the tasks it created and the monitor keep
\* running, and the engine ends every transfer
SpecAriaEnd ==
    /\ Init /\ [][NextAriaEnd]_vars
    /\ WF_vars(PollDownload)
    /\ WF_vars(AriaStartDownload)
    /\ WF_vars(AriaMonitorLoop)
    /\ WF_vars(\E e \in TerminalStatuses : EngineReports(e))

\* ------------------------------------ fetch and delivery in one loop
\* DownloadPooler.start, one iteration while a download holds the slot:
\* neither lookup is made and the loop sleeps poll_interval; ticks counts
\* these iterations here
PollIdle ==
    /\ alive /\ running
    /\ current_download_id # NoJob
    /\ ticks' = (ticks + 1) % (MaxTicks + 1)
    /\ UNCHANGED <<storeVars, poolerVars, qmVars, errs, ops, firstClaims,
                   resumed, fsize, umVars, progress, sigVars, sent,
                   updated_at, envVars>>

\* the pooler with both stages; the engine and Telegram answer when they
\* answer
NextStarve ==
    \/ Enqueue
    \/ PollDownload
    \/ PollUpload
    \/ PollIdle
    \/ StartDownload
    \/ FetchComplete
    \/ \E kind \in {"engine", "other"} : FetchFail(kind)
    \/ BackoffWake
    \/ StartUpload
    \/ \E ub \in UserbotOutcomes, bt \in BotOutcomes : UploadDone(ub, bt)

\* the loop of start() keeps iterating, the tasks it created run, the
\* sleep of handle_failure ends and an upload that was started returns;
\* how long the engine takes for a transfer is not the pooler's to decide
SpecStarve ==
    /\ Init /\ [][NextStarve]_vars
    /\ WF_vars(PollDownload)
    /\ WF_vars(PollUpload)
    /\ WF_vars(PollIdle)
    /\ WF_vars(StartDownload)
    /\ WF_vars(BackoffWake)
    /\ WF_vars(StartUpload)
    /\ WF_vars(\E ub \in UserbotOutcomes, bt \in BotOutcomes : UploadDone(ub, bt))

\* ------------------------------------- a delivery that cannot succeed
\* the artifact of a 'downloaded' row disappears from the download
\* directory
LoseFile(j) ==
    /\ j \in rows /\ status[j] = "downloaded" /\ file_path[j]
    /\ j \notin missing
    /\ missing' = missing \cup {j}
    /\ UNCHANGED <<storeVars, poolerVars, qmVars, errs, ops, firstClaims,
                   resumed, fsize, ticks, umVars, progress, sigVars, sent,
                   updated_at, url, url_type, gid_status>>

\* _process_upload starts: os.path.exists(file_path) is true unless the
\* artifact is missing
StartUploadMissing == StartUploadWith(ul_job \notin missing) /\ UNCHANGED auxVars

\* both stages of the pooler; Telegram accepts every file that is sent
NextBlock ==
    \/ Enqueue
    \/ PollDownload
    \/ StartDownload
    \/ FetchComplete
    \/ \E kind \in {"engine", "other"} : FetchFail(kind)
    \/ BackoffWake
    \/ \E j \in Ids : LoseFile(j)
    \/ PollUpload
    \/ StartUploadMissing
    \/ \E bt \in BotOutcomes : UploadDone("ok", bt)

\* the loop of start() keeps iterating, the tasks it created run, a
\* transfer that can complete does, and every upload returns
SpecBlock ==
    /\ Init /\ [][NextBlock]_vars
    /\ WF_vars(PollDownload)
    /\ WF_vars(StartDownload)
    /\ WF_vars(FetchComplete)
    /\ WF_vars(BackoffWake)
    /\ WF_vars(PollUpload)
    /\ WF_vars(StartUploadMissing)
    /\ WF_vars(\E bt \in BotOutcomes : UploadDone("ok", bt))

\* ------------------------------------------------- a torrent is fetched
\* _process_download of a row with source 'torrent': the slot is taken,
\* 'downloading' is written, and _download_torrent calls
\* TorrentManager.download_magnet, which hands the magnet to aria2c and,
\* having a db, calls db.add_to_queue(url=magnet, source='torrent', ...)
StartDownloadTorrent ==
    /\ alive /\ dl_pc = "created"
    /\ nextId <= MaxJobs
    /\ current_download_id' = dl_job
    /\ status' = update_download_status(status, dl_job, "downloading")
    /\ rows' = rows \cup {nextId}
    /\ nextId' = nextId + 1
    /\ dl_pc' = "monitor"
    /\ UNCHANGED <<paused, cancelled, priority, retry_count, file_path,
                   file_id>>
    /\ UNCHANGED <<alive, running, current_upload_id, dl_job,
                   rh_retry_count, rh_delay, ul_pc, ul_job, ul_path>>
    /\ UNCHANGED <<qmVars, histVars>>

\* the fetch stage over rows of either source, with enqueue and delete
NextTorrent ==
    \/ Enqueue
    \/ PollDownload
    \/ StartDownload
    \/ StartDownloadTorrent
    \/ FetchComplete
    \/ \E kind \in {"engine", "other"} : FetchFail(kind)
    \/ BackoffWake
    \/ \E j \in Ids : Delete(j)

SpecTorrent == Init /\ [][NextTorrent]_vars

\* ------------------------------------------ the classifier of links
\* a submitted text is scheme ++ host ++ path ++ suffix
Schemes == {"magnet:?", "http://", "https://", "ftp://", ""}
Hosts == {"youtube.com", "example.com"}
Paths == {"/watch", "/download/", "/v"}
Suffixes == {".mp4", ".html"}
Urls == [scheme : Schemes, host : Hosts, path : Paths, suffix : Suffixes]

\* the members of URLDetector.DIRECT_EXTENSIONS among Suffixes
DIRECT_EXTENSIONS == {".mp4"}
\* the members of download_indicators among Paths
download_indicators == {"/download/"}
\* the hosts some yt-dlp extractor is suitable() for
ytdlp_hosts == {"youtube.com"}

\* URLDetector._is_direct_file_url: the text ends with a known extension,
\* or its path holds a download indicator
is_direct_file_url(u) ==
    u.suffix \in DIRECT_EXTENSIONS \/ u.path \in download_indicators

\* URLDetector._is_ytdlp_supported
is_ytdlp_supported(u) == u.host \in ytdlp_hosts

\* the checks with the extractor list consulted before the file patterns
detect_url_type_off(u) ==
    IF u.scheme = "magnet:?" THEN "torrent"
    ELSE IF u.scheme \notin {"http://", "https://"} THEN "unknown"
    ELSE IF is_ytdlp_supported(u) THEN "ytdlp"
    ELSE IF is_direct_file_url(u) THEN "direct"
    ELSE "playwright"

\* URLDetector.detect_url_type
detect_url_type(u) ==
    IF u.scheme = "magnet:?" THEN "torrent"
    ELSE IF u.scheme \notin {"http://", "https://"} THEN "unknown"
    ELSE IF is_direct_file_url(u) THEN "direct"
    ELSE IF is_ytdlp_supported(u) THEN "ytdlp"
    ELSE "playwright"

\* what a handler leaves alone when it receives a message
SubFrame ==
    UNCHANGED <<poolerVars, qmVars, errs, ops, firstClaims, resumed, fsize,
                ticks, umVars, progress, sigVars, sent, updated_at,
                gid_status, missing>>

\* db.add_to_queue from a handler: a new row with the column defaults
AddRow ==
    /\ nextId <= MaxJobs
    /\ rows' = rows \cup {nextId}
    /\ nextId' = nextId + 1
    /\ UNCHANGED <<status, paused, cancelled, priority, retry_count,
                   file_path, file_id>>

\* the handler without the rejection of 'unknown'
HandleUrlSubmission_off(u) ==
    /\ url' = u
    /\ url_type' = detect_url_type(u)
    /\ AddRow
    /\ SubFrame

\* handle_url_submission, in submission mode and under MAX_LINKS
HandleUrlSubmission(u) ==
    /\ url' = u
    /\ url_type' = detect_url_type(u)
    /\ IF url_type' = "unknown" THEN UNCHANGED storeVars ELSE AddRow
    /\ SubFrame

\* bot.py detect_source_type; "invalid" stands for InvalidURLError
detect_source_type(u) ==
    IF u.scheme = "magnet:?" THEN "torrent"
    ELSE IF u.scheme \in {"http://", "https://"} THEN "direct"
    ELSE "invalid"

\* urlparse(url) has a scheme and a netloc
has_scheme_and_netloc(u) == u.scheme \in {"http://", "https://", "ftp://"}

\* handle_download (/download <url>): the classifier is not called
HandleDownload(u) ==
    /\ url' = u
    /\ url_type' = "none"
    /\ IF has_scheme_and_netloc(u) /\ detect_source_type(u) # "invalid"
          THEN AddRow ELSE UNCHANGED storeVars
    /\ SubFrame

\* handle_torrent (/torrent <magnet_link>): the classifier is not called
HandleTorrent(u) ==
    /\ url' = u
    /\ url_type' = "none"
    /\ IF u.scheme = "magnet:?" THEN AddRow ELSE UNCHANGED storeVars
    /\ SubFrame

NextDetect ==
    \/ \E u \in Urls : HandleUrlSubmission(u)
    \/ \E u \in Urls : HandleDownload(u)
    \/ \E u \in Urls : HandleTorrent(u)

SpecDetect == Init /\ [][NextDetect]_vars

\* ------------------------------------------- "download now" scenario
\* OrderJobs pending rows, some of which were already given the
\* "download now" priority
InitNow ==
    /\ rows = 1..OrderJobs
    /\ nextId = OrderJobs + 1
    /\ status = [j \in Ids |-> "pending"]
    /\ paused = [j \in Ids |-> FALSE]
    /\ cancelled = [j \in Ids |-> FALSE]
    /\ priority \in [Ids -> {0, PRIORITY_NOW}]
    /\ \A j \in Ids : j \notin 1..OrderJobs => priority[j] = 0
    /\ retry_count = [j \in Ids |-> 0]
    /\ file_path = [j \in Ids |-> FALSE]
    /\ file_id = [j \in Ids |-> NoRef]
    /\ InitPooler /\ InitQM /\ InitHist

\* the fetch stage without failures, and the "download now" button
NextNow ==
    \/ PollDownload
    \/ StartDownload
    \/ FetchComplete
    \/ \E j \in Ids : DownloadNow(j)

SpecNow == InitNow /\ [][NextNow]_vars

\* ------------------------------------------------ reordering the queue
\* db.get_queue_items('pending'): the rows of the queue view
QueueItems == {k \in rows : status[k] = "pending"}

\* ORDER BY priority DESC, added_date ASC under the priorities pr
Precedes(pr, a, b) == pr[a] > pr[b] \/ (pr[a] = pr[b] /\ a < b)

\* the index of row j in the list get_queue_items returns
QueueIndex(pr, j) == Cardinality({k \in QueueItems : Precedes(pr, k, j)})

\* queue_items[i]['id']
ItemAt(pr, i) == CHOOSE k \in QueueItems : QueueIndex(pr, k) = i

\* the priorities 100, 90, 80, ... given in display order when all are 0
InitialisedPriorities ==
    [k \in Ids |-> IF k \in QueueItems
                   THEN 100 - QueueIndex(priority, k) * 10
                   ELSE priority[k]]

\* handle_queue_callback, queue_move_<direction>_<id>: the priorities of
\* the row and of its neighbour in the list are exchanged
Move(j, direction) ==
    /\ j \in QueueItems
    /\ IF direction = "up"
       THEN QueueIndex(priority, j) # 0
       ELSE QueueIndex(priority, j) < Cardinality(QueueItems) - 1
    /\ LET current_idx == QueueIndex(priority, j)
           target_idx == IF direction = "up" THEN current_idx - 1
                         ELSE current_idx + 1
           all_zero == \A k \in QueueItems : priority[k] = 0
           pr == IF all_zero THEN InitialisedPriorities ELSE priority
           target == ItemAt(pr, target_idx)
       IN  priority' = [pr EXCEPT ![j] = pr[target], ![target] = pr[j]]
    /\ UNCHANGED <<rows, nextId, status, paused, cancelled, retry_count,
                   file_path, file_id>>
    /\ ControlFrame /\ UNCHANGED <<errs, resumed>>

\* the fetch stage without failures and the buttons of the queue view
NextMove ==
    \/ PollDownload
    \/ StartDownload
    \/ FetchComplete
    \/ \E j \in Ids : DownloadNow(j)
    \/ \E j \in Ids, direction \in {"up", "down"} : Move(j, direction)

SpecMove == InitNow /\ [][NextMove]_vars

\* ================================================================ claims
\* a step of the main loop that claims a row for fetching
PollClaims == dl_pc # "created" /\ dl_pc' = "created"

\* C1: at most one job has status 'downloading' in every reachable state
\* of the Job Store, under any interleaving of polls, fetch completions and
\* failures, retries, pause/resume/cancel/reorder and process restarts.
C1_SingleDownloading ==
    Cardinality({j \in rows : status[j] = "downloading"}) <= 1

\* C2: at most one job has status 'uploading' in every reachable state of
\* the Job Store.
C2_SingleUploading ==
    Cardinality({j \in rows : status[j] = "uploading"}) <= 1

\* C3: once a job's cancel flag is set and its status is 'cancelled', no
\* later step changes its status to any other value.
C3_CancelTerminal ==
    [][\A j \in rows \cap rows' :
          (cancelled[j] /\ status[j] = "cancelled") => status'[j] = "cancelled"]_vars

\* C4: a handled fetch failure that finds or leaves retry_count at the
\* maximum (3) sets the status to 'failed'; no step sets a job whose
\* retry_count has reached the maximum to 'pending'.
C4_MaxRetryFails ==
    [][\A j \in rows \cap rows' :
          /\ (retry_count'[j] > retry_count[j] /\ retry_count'[j] >= 3)
                => status'[j] = "failed"
          /\ (status'[j] = "pending" /\ status[j] # "pending")
                => retry_count'[j] < 3]_vars

C4_Witness ==
    \E j \in rows : retry_count[j] = 3 /\ status[j] = "failed" /\ errs[j] < 3

\* C5: retry_count never decreases; it changes only in the step in which
\* the runner handles a failure of that job's fetch, by exactly one, and
\* the count handle_failure got back from increment_retry is the stored one.
C5_RetryMonotonic ==
    [][\A j \in rows \cap rows' :
          /\ retry_count'[j] >= retry_count[j]
          /\ retry_count'[j] # retry_count[j] =>
                /\ retry_count'[j] = retry_count[j] + 1
                /\ dl_pc = "monitor" /\ dl_job = j
                /\ dl_pc' \in {"backoff", "none"}
                /\ dl_pc' = "backoff" => rh_retry_count' = retry_count'[j]]_vars

C5_Witness ==
    /\ dl_pc = "backoff" /\ dl_job \in rows
    /\ rh_retry_count = 2 /\ retry_count[dl_job] = 2

C7_ThreeErrorsFail ==
    [][\A j \in rows \cap rows' :
          (errs[j] = 2 /\ errs'[j] = 3) =>
              (status'[j] = "failed" /\ retry_count'[j] = 3)]_vars

C7_Witness ==
    \E j \in rows : errs[j] = 3 /\ status[j] = "failed" /\ retry_count[j] = 3

\* C8: the delay before a permitted retry follows the schedule 60s, 120s,
\* 240s over a job's successive failures (base 60s doubled per failure).
C8_BackoffSchedule ==
    dl_pc = "backoff" => rh_delay = <<60, 120, 240>>[rh_retry_count]

\* the candidate with the highest priority, ties to the earliest row
BestOf(S, j) ==
    /\ j \in S
    /\ \A k \in S : \/ priority[k] < priority[j]
                    \/ priority[k] = priority[j] /\ j <= k

C10_PausedNeverClaimed ==
    [][PollClaims => ~paused[dl_job']]_vars

C10_Witness ==
    /\ dl_pc = "created"
    /\ \E k \in rows : /\ paused[k] /\ status[k] = "pending"
                       /\ k < dl_job /\ priority[k] >= priority[dl_job]

\* C11: a step that resumes a paused job (paused goes from true to false)
\* leaves the priority and retry_count of every job as they were, and the
\* job, if pending or left in 'downloading', is again among the candidates
\* of get_next_pending_download.
C11_ResumeEligible ==
    [][\A j \in rows \cap rows' :
          (paused[j] /\ ~paused'[j]) =>
              /\ priority' = priority
              /\ retry_count' = retry_count
              /\ status' = status
              /\ (status[j] \in {"pending", "downloading"}
                    => j \in PendingCandidates')]_vars

C11_Witness ==
    \E j \in resumed :
        /\ dl_pc = "created" /\ dl_job = j
        /\ ~paused[j] /\ status[j] = "pending"

\* C12: when the runner claims a job, no row is in status 'downloading':
\* a row left in 'downloading' by a killed process has been reset to
\* 'pending' before the restarted runner claims anything.
C12_StaleReset ==
    [][PollClaims => \A j \in rows : status[j] # "downloading"]_vars

\* C13: after a step that sets the priority of a pending, unpaused job J
\* to 999 while at least two other jobs are pending and no row is in
\* 'downloading', get_next_pending_download returns J.
C13_NowIsNext ==
    [][\A j \in rows :
          (/\ priority[j] # PRIORITY_NOW /\ priority'[j] = PRIORITY_NOW
           /\ status[j] = "pending" /\ ~paused[j]
           /\ Cardinality({k \in rows \ {j} : status[k] = "pending"}) >= 2
           /\ \A k \in rows : status[k] # "downloading")
          => get_next_pending_download' = j]_vars

\* C15: when the userbot channel is unavailable or fails and the bot channel
\* returns a file id, the step that ends the upload leaves the job
\* 'uploaded' with the bot's file id stored as its file_id.
C15_BotFallback ==
    [][\A ub \in {"absent", "fails"} :
          (UploadDone(ub, "ok") /\ ul_job \in rows) =>
              /\ status'[ul_job] = "uploaded"
              /\ file_id'[ul_job] = "bot"]_vars

C15_Witness ==
    \E j \in rows : status[j] = "uploaded" /\ file_id[j] = "bot"

\* C14: a job whose remote file is larger than the 2 GiB cap is never
\* handed to the fetch engine (its monitor never runs) and never becomes
\* 'downloaded': it is 'failed', or not yet looked at.
C14_OversizeRejected ==
    \A j \in rows :
        fsize[j] > MAX_FILE_SIZE =>
            /\ ~(dl_pc = "monitor" /\ dl_job = j)
            /\ status[j] # "downloaded"

\* C16: a step in which a delivery attempt for a job ends without a file
\* id (the attempt failed) leaves the job's status 'downloaded'.
C16_UploadFailureReverts ==
    [][\A j \in rows \cap rows' :
          /\ (/\ um_job = j /\ um_pc \in {"attempt", "sending"}
              /\ um_pc' \in {"wait", "idle"} /\ file_id'[j] = NoRef)
                => status'[j] = "downloaded"
          /\ (/\ ul_job = j /\ ul_pc = "sending" /\ ul_pc' = "none"
              /\ alive' /\ file_id'[j] = NoRef)
                => status'[j] = "downloaded"]_vars

\* C17: a cancel request on a job whose status is pending, downloading,
\* downloaded or uploading leaves the job with status 'cancelled'.
C17_CancelGivesCancelled ==
    [][\A j \in rows :
          (/\ status[j] \in {"pending", "downloading", "downloaded", "uploading"}
           /\ CancelDownload(j))
             => status'[j] = "cancelled"]_vars

\* C19: 'failed' is terminal; no step changes the status of a job that is
\* 'failed' and stays in the store.
C19_FailedTerminal ==
    [][\A j \in rows \cap rows' :
          status[j] = "failed" => status'[j] = "failed"]_vars

\* C20: a job that has a delivery reference has status 'uploaded' and keeps
\* that status in every later step.
C20_DeliveredStaysUploaded ==
    [][\A j \in rows \cap rows' :
          file_id[j] # NoRef
             => (status[j] = "uploaded" /\ status'[j] = "uploaded")]_vars

\* C18: when cancel has been requested for the job whose fetch is in
\* flight, the next iteration of the monitor loop ends the fetch, and the
\* fetch does not go on to complete.
C18_CancelStopsFetch ==
    [][(/\ dl_pc = "monitor" /\ dl_job \in rows
        /\ (cancelled[dl_job] \/ status[dl_job] \in {"failed", "cancelled"})
        /\ (ticks' # ticks \/ dl_pc' # dl_pc))
          => (dl_pc' # "monitor" /\ status'[dl_job] # "downloaded")]_vars

\* C21: in every state, a job that has an artifact path has status
\* 'downloaded', 'uploading' or 'uploaded'.
C21_PathOnlyWhenFetched ==
    \A j \in rows :
        file_path[j] => status[j] \in {"downloaded", "uploading", "uploaded"}

\* C23: in every state at most one job has status 'downloading' or
\* 'uploading'.
C23_OneActiveJob ==
    Cardinality({j \in rows : status[j] \in {"downloading", "uploading"}}) <= 1

\* C29: a row leaves the store only in a step of the delete request, and
\* only if its status is neither 'downloading' nor 'uploading'.
C29_DeleteOnlyInactive ==
    [][\A j \in rows \ rows' :
          Delete(j) /\ status[j] \notin {"downloading", "uploading"}]_vars

\* C22: in every state of the store, a job with status 'downloaded' has
\* its artifact path stored.
C22_DownloadedHasPath ==
    \A j \in rows : status[j] = "downloaded" => file_path[j]

\* C24: a monitor iteration that finds the engine status 'error' or
\* 'removed' ends the monitoring loop with a failure that the retry policy
\* handles (the retry counter of the job grows).
C24_EngineErrorRaises ==
    [][\A engine \in {"error", "removed"} :
          (AriaMonitorStep(engine) /\ dl_job \in rows)
             => /\ dl_pc' # "monitor"
                /\ retry_count'[dl_job] = retry_count[dl_job] + 1]_vars

C26_ExitWaitsForFetch ==
    [][(/\ Shutdown
        /\ sig_dl # NoJob /\ dl_job = sig_dl /\ dl_pc = "monitor")
          => ticks * MONITOR_INTERVAL >= SHUTDOWN_TIMEOUT]_vars

C28_UploadDoesNotBlockFetch ==
    (/\ alive /\ running
     /\ ul_pc = "sending" /\ dl_pc = "none"
     /\ current_download_id = NoJob
     /\ PendingCandidates # {})
       => ENABLED PollDownload

\* a fetch that was started while the upload of another job was in flight
C28_Witness ==
    /\ ul_pc = "sending" /\ ul_job \in rows /\ status[ul_job] = "uploading"
    /\ dl_pc = "monitor" /\ dl_job \in rows /\ status[dl_job] = "downloading"
    /\ dl_job # ul_job

\* C30: when a fetch attempt of a job begins (first attempt, retry or
\* recovery after a crash), the stored progress of the job is 0 before the
\* attempt reports any progress.
C30_ProgressResetOnRestart ==
    [][(dl_pc = "created" /\ dl_pc' = "monitor" /\ dl_job \in rows)
          => progress'[dl_job] = 0]_vars

\* C31: in a step that leaves a job in 'downloading', or leaves it in
\* 'uploading', the stored progress of the job does not decrease.
C31_ProgressMonotone ==
    [][\A j \in rows \cap rows' :
          (status[j] \in {"downloading", "uploading"} /\ status'[j] = status[j])
             => progress'[j] >= progress[j]]_vars

\* C32: in every state the status of each job is one of pending,
\* downloading, downloaded, uploading, uploaded, failed, cancelled.
C32_SevenStatuses ==
    \A j \in rows :
        status[j] \in {"pending", "downloading", "downloaded", "uploading",
                       "uploaded", "failed", "cancelled"}

\* C33: every step that changes a column of a job row also refreshes
\* the row's updated_at.
C33_WritesRefreshUpdatedAt ==
    [][\A j \in rows \cap rows' :
          (\/ status'[j] # status[j] \/ paused'[j] # paused[j]
           \/ cancelled'[j] # cancelled[j] \/ priority'[j] # priority[j]
           \/ retry_count'[j] # retry_count[j]
           \/ file_path'[j] # file_path[j] \/ file_id'[j] # file_id[j])
             => updated_at'[j] # updated_at[j]]_vars


\* C34: the classifier tests magnet first, then the direct-file patterns,
\* then the yt-dlp extractors, and falls back to the browser crawler; so
\* an http(s) link that matches a direct-file pattern is 'direct' even
\* when an extractor also supports it.
C34_DirectBeforeExtractable ==
    url_type # "none" =>
        /\ url.scheme = "magnet:?" => url_type = "torrent"
        /\ (url.scheme \in {"http://", "https://"} /\ is_direct_file_url(url))
              => url_type = "direct"
        /\ (url.scheme \in {"http://", "https://"} /\ ~is_direct_file_url(url)
              /\ is_ytdlp_supported(url)) => url_type = "ytdlp"
        /\ (url.scheme \in {"http://", "https://"} /\ ~is_direct_file_url(url)
              /\ ~is_ytdlp_supported(url)) => url_type = "playwright"

C34_Witness ==
    /\ url_type = "direct"
    /\ is_direct_file_url(url) /\ is_ytdlp_supported(url)

\* C35: a submitted text the classifier reports as 'unknown' creates no
\* row, whichever handler receives it.
C35_UnknownNeverQueued ==
    [][\A u \in Urls :
          (detect_url_type(u) = "unknown"
             /\ (HandleUrlSubmission(u) \/ HandleDownload(u) \/ HandleTorrent(u)))
            => rows' = rows]_vars

C35_Witness ==
    /\ url_type = "unknown" /\ url.scheme \in {"", "ftp://"}
    /\ rows = {}

\* C36: the set of rows of the Job Store changes only by an enqueue or a
\* delete request; processing a job, a torrent included, adds no row.
C36_RowsChangeOnlyByEnqueueDelete ==
    [][rows' # rows => (Enqueue \/ \E j \in Ids : Delete(j))]_vars

C38_DeliveryNotStarved ==
    (/\ \E j \in rows : status[j] = "downloaded" /\ file_id[j] = NoRef
     /\ current_upload_id = NoJob /\ ul_pc = "none")
      ~> (ul_pc # "none")

\* C39: a 'downloaded' row whose artifact is on disk is eventually
\* delivered, even while another 'downloaded' row cannot be delivered
\* because its artifact is missing.
C39_UndeliverableDoesNotBlock ==
    \A j \in Ids :
        (j \in rows /\ status[j] = "downloaded" /\ file_path[j]
           /\ file_id[j] = NoRef /\ j \notin missing)
          ~> (status[j] = "uploaded" \/ j \in missing)

\* C40: a move-up request on a pending row that is not first puts the row
\* before its former immediate predecessor in the order of priority DESC,
\* added_date ASC, and keeps the relative order of the other pending
\* rows.
C40_MoveUpSwapsWithPredecessor ==
    [][\A j \in Ids :
          Move(j, "up") =>
            LET t == ItemAt(priority, QueueIndex(priority, j) - 1)
            IN  /\ Precedes(priority', j, t)
                /\ \A a, b \in QueueItems \ {j, t} :
                      Precedes(priority, a, b) <=> Precedes(priority', a, b)]_vars
====
